---- MODULE Spec2Model ----
(***************************************************************************)
(* FastStray (src/compress.py): trajectory compression by moving-average  *)
(* smoothing, correlation scoring and non-maximum suppression.             *)
(*                                                                         *)
(* Arrays are sequences; the code's 0-based index j is element j + 1.      *)
(* Floating-point values are modelled by exact rationals (no rounding)     *)
(* plus the IEEE specials the code can produce (NaN, +inf):                *)
(*    [k |-> "num", n |-> numerator, d |-> denominator > 0]  (reduced)     *)
(*    [k |-> "inf", ...]   1./0.0 on a numpy float                         *)
(*    [k |-> "nan", ...]   mean of an empty slice, undefined correlation   *)
(***************************************************************************)
EXTENDS Integers, Sequences, FiniteSets

VARIABLES
    params,                        \* dict with keys alpha, beta, gamma
    position,                      \* rows <<lon, lat, timestamp>>
    sample_size,                   \* dataclass field sample_size
    spatial_position,              \* rows <<lon, lat>>
    temporal_position,             \* timestamps
    filtering_spatial_position,    \* rows <<mean lon, mean lat>>
    filtering_temporal_position,
    coeff,                         \* scores
    max_coeff,                     \* neighbourhood maxima
    simplified_spatial_position,
    simplified_temporal_position,
    rate,                          \* last value returned by compression_rate()
    attrs,                         \* attributes the stages have set on the object
    pc,                            \* position of run()
    error,                         \* exception that left run(), or "none"
    trace,                         \* stages run() has entered, in order
    call                           \* one get_params_idx call: arguments and result

vars == <<params, position, sample_size, spatial_position, temporal_position,
          filtering_spatial_position, filtering_temporal_position, coeff,
          max_coeff, simplified_spatial_position, simplified_temporal_position,
          rate, attrs, pc, error, trace, call>>

pipeline_vars == <<params, position, sample_size, spatial_position,
          temporal_position, filtering_spatial_position,
          filtering_temporal_position, coeff, max_coeff,
          simplified_spatial_position, simplified_temporal_position,
          rate, attrs, pc, error, trace>>

(***************************************************************************)
(* Bounds of the model.                                                    *)
(***************************************************************************)
MaxN == 3          \* Spec: longest trajectory
MaxCoord == 1      \* Spec: coordinates are drawn from 0..MaxCoord
MaxAlpha == 1
MaxBeta == 2
MaxGamma == 2
LongN == 6         \* SpecLong: longest trajectory
LongCoord == 1     \* SpecLong: coordinates are drawn from 0..LongCoord
MaxValue == 7      \* SpecWindow: largest half-width
MaxSize == 8       \* SpecWindow: largest sample_size

DefaultSampleSize == 1000

(***************************************************************************)
(* Numbers.                                                                *)
(***************************************************************************)
Abs(a) == IF a < 0 THEN -a ELSE a

RECURSIVE Gcd(_, _)
Gcd(a, b) == IF b = 0 THEN a ELSE Gcd(b, a % b)

NaN == [k |-> "nan", n |-> 0, d |-> 1]
Inf == [k |-> "inf", n |-> 1, d |-> 1]

\* n / d with d > 0, reduced
Rat(n, d) ==
    LET g == Gcd(Abs(n), d)
    IN  [k |-> "num", n |-> n \div g, d |-> d \div g]

IsNaN(a) == a.k = "nan"

\* an/ad > bn/bd for non-negative fractions, by their continued fractions
\* (no products: the cross-multiplication can leave the integer range)
RECURSIVE FracGt(_, _, _, _)
FracGt(an, ad, bn, bd) ==
    LET qa == an \div ad
        qb == bn \div bd
        ra == an % ad
        rb == bn % bd
    IN  IF qa # qb THEN qa > qb
        ELSE IF ra = 0 THEN FALSE
        ELSE IF rb = 0 THEN TRUE
        ELSE FracGt(bd, rb, ad, ra)

\* a > b on floats: false as soon as one side is NaN
Gt(a, b) ==
    /\ ~IsNaN(a)
    /\ ~IsNaN(b)
    /\ \/ a.k = "inf" /\ b.k = "num"
       \/ a.k = "num" /\ b.k = "num" /\ FracGt(a.n, a.d, b.n, b.d)

\* a == b on floats: NaN equals nothing, itself included
FloatEq(a, b) == ~IsNaN(a) /\ ~IsNaN(b) /\ a = b

Geq(a, b) == Gt(a, b) \/ FloatEq(a, b)

RECURSIVE SumSeq(_)
SumSeq(s) == IF s = <<>> THEN 0 ELSE Head(s) + SumSeq(Tail(s))

\* a[j] for a 0-based index j
At(a, j) == a[j + 1]

InRange(index, len) == \A k \in 1..Len(index) : index[k] >= 0 /\ index[k] < len

\* a[index] for an index array: the selected rows, in index order
Take(a, index) == [k \in 1..Len(index) |-> At(a, index[k])]

(***************************************************************************)
(* WindowIndexer                                                           *)
(***************************************************************************)
Max2(a, b) == IF a >= b THEN a ELSE b
Min2(a, b) == IF a <= b THEN a ELSE b

\* np.arange(inf, sup)
arange(inf, sup) == [k \in 1..(IF sup > inf THEN sup - inf ELSE 0) |-> inf + k - 1]

\* faulty variant: the upper bound made inclusive
get_params_idx_inclusive(idx, value, size) ==
    LET inf == Max2(0, idx - value)
        sup == Min2(idx + value + 1, size)
    IN  arange(inf, sup)

\* faulty variant: the upper bound not clipped to the sample size
get_params_idx_unclipped(idx, value, size) ==
    LET inf == Max2(0, idx - value)
        sup == idx + value
    IN  arange(inf, sup)

get_params_idx(idx, value, size) ==
    LET inf == Max2(0, idx - value)
        sup == Min2(idx + value, size)
    IN  arange(inf, sup)

\* one window per index of range(sample_size)
get_index(param) ==
    [i \in 1..sample_size |-> get_params_idx(i - 1, params[param], sample_size)]

(***************************************************************************)
(* Smoother                                                                *)
(***************************************************************************)
Column(rows, c) == [k \in 1..Len(rows) |-> rows[k][c]]

\* ndarray.mean(axis=0) of integer rows: NaN on an empty slice
mean_axis(values) ==
    IF Len(values) = 0 THEN NaN ELSE Rat(SumSeq(values), Len(values))

\* self.spatial_position[index,:].mean(axis=0); sp is self.spatial_position
mean_position(sp, index) ==
    LET rows == Take(sp, index)
    IN  <<mean_axis(Column(rows, 1)), mean_axis(Column(rows, 2))>>

(***************************************************************************)
(* CorrelationScorer                                                       *)
(***************************************************************************)
Lcm(a, b) == (a * b) \div Gcd(a, b)

RECURSIVE LcmDen(_)
LcmDen(xs) == IF xs = <<>> THEN 1 ELSE Lcm(Head(xs).d, LcmDen(Tail(xs)))

IsConstant(s) == \A k \in 1..Len(s) : s[k] = s[1]

\* scipy.stats.pearsonr(xs, ts)[0] ** 2 for at least two samples, without
\* rounding; constant input gives nan (ConstantInputWarning), so does nan input:
\* r = sum(xm * tm) / sqrt(sum(xm^2) * sum(tm^2)), xm and tm the centred
\* samples. The samples are scaled to integers first (r does not change).
pearsonr_sq(xs, ts) ==
    IF \E k \in 1..Len(xs) : IsNaN(xs[k]) THEN NaN
    ELSE IF IsConstant(xs) \/ IsConstant(ts) THEN NaN
    ELSE
        LET len == Len(xs)
            m   == LcmDen(xs)
            xi  == [k \in 1..len |-> xs[k].n * (m \div xs[k].d)]
            sx  == SumSeq(xi)
            st  == SumSeq(ts)
            xm  == [k \in 1..len |-> len * xi[k] - sx]
            tm  == [k \in 1..len |-> len * ts[k] - st]
            num == SumSeq([k \in 1..len |-> xm[k] * tm[k]])
            ssx == SumSeq([k \in 1..len |-> xm[k] * xm[k]])
            sst == SumSeq([k \in 1..len |-> tm[k] * tm[k]])
            a   == Rat(Abs(num), ssx)
            b   == Rat(Abs(num), sst)
        IN  Rat(a.n * b.n, a.d * b.d)

\* pearsonr raises ValueError: x and y must have length at least 2
pearsonr_raises(xs) == Len(xs) < 2

\* 1. / rat on a numpy float
Inverse(rat) ==
    IF IsNaN(rat) THEN NaN
    ELSE IF rat.n = 0 THEN Inf
    ELSE Rat(rat.d, rat.n)

Plus(a, b) ==
    IF IsNaN(a) \/ IsNaN(b) THEN NaN
    ELSE IF a.k = "inf" \/ b.k = "inf" THEN Inf
    ELSE LET m == Lcm(a.d, b.d)
         IN  Rat(a.n * (m \div a.d) + b.n * (m \div b.d), m)

ksi_func(pp, tt) ==
    LET rat_x == pearsonr_sq(Column(pp, 1), tt)
        rat_y == pearsonr_sq(Column(pp, 2), tt)
    IN  Plus(Inverse(rat_x), Inverse(rat_y))

sub_spatial_array(index) == Take(filtering_spatial_position, index)

sub_temporal_array(index) == Take(filtering_temporal_position, index)

(***************************************************************************)
(* LocalMaxSelector                                                        *)
(***************************************************************************)
\* Python's max(): the first item, replaced by each later item that is > it
RECURSIVE PyMaxFrom(_, _)
PyMaxFrom(cur, rest) ==
    IF rest = <<>> THEN cur
    ELSE PyMaxFrom(IF Gt(Head(rest), cur) THEN Head(rest) ELSE cur, Tail(rest))

PyMax(values) == PyMaxFrom(Head(values), Tail(values))

RECURSIVE PyMinFrom(_, _)
PyMinFrom(cur, rest) ==
    IF rest = <<>> THEN cur
    ELSE PyMinFrom(IF Gt(cur, Head(rest)) THEN Head(rest) ELSE cur, Tail(rest))

\* faulty variant: min() in place of max()
sub_coeff_min(index) ==
    LET values == Take(coeff, index) IN PyMinFrom(Head(values), Tail(values))

\* max(map(self.coeff.__getitem__, index)), for a non-empty index
sub_coeff(index) == PyMax(Take(coeff, index))

\* np.where(np.array(mx) == np.array(cf))[0]
where_equal(mx, cf) ==
    SelectSeq(arange(0, Len(cf)), LAMBDA j : FloatEq(At(mx, j), At(cf, j)))

(***************************************************************************)
(* TrajectoryCompressor: the object and run()                              *)
(***************************************************************************)
Unset == [k |-> "unset", n |-> 0, d |-> 1]

Stages == <<"moving_average", "update_coeff", "update_max_coeff",
            "simplified_trajectory">>

\* an exception leaves run(): nothing more is assigned
Raise(exc) ==
    /\ error' = exc
    /\ pc' = "Aborted"

\* the first of the indices at which a stage's map raises
FirstBad(bad) == CHOOSE i \in bad : \A j \in bad : i <= j

moving_average ==
    /\ pc = "Uninitialized"
    /\ trace' = Append(trace, "moving_average")
    /\ LET sp == [k \in 1..Len(position) |-> <<position[k][1], position[k][2]>>]
           tp == [k \in 1..Len(position) |-> position[k][3]]
           idx == get_index("alpha")
           n == Len(position)
       IN  /\ spatial_position' = sp
           /\ temporal_position' = tp
           /\ IF \E i \in 1..sample_size : ~InRange(idx[i], n)
              THEN /\ Raise("IndexError")
                   /\ attrs' = attrs \cup {"spatial_position", "temporal_position"}
                   /\ UNCHANGED <<filtering_spatial_position,
                                  filtering_temporal_position>>
              ELSE /\ filtering_spatial_position' =
                          [i \in 1..sample_size |-> mean_position(sp, idx[i])]
                   /\ filtering_temporal_position' = tp
                   /\ attrs' = attrs \cup {"spatial_position", "temporal_position",
                                           "filtering_spatial_position",
                                           "filtering_temporal_position"}
                   /\ pc' = "Smoothed"
                   /\ UNCHANGED error
    /\ UNCHANGED <<params, position, sample_size, coeff, max_coeff,
                   simplified_spatial_position, simplified_temporal_position,
                   rate, call>>

update_coeff ==
    /\ pc = "Smoothed"
    /\ trace' = Append(trace, "update_coeff")
    /\ LET idx == get_index("beta")
           BadIndex(i) == \/ ~InRange(idx[i], Len(filtering_spatial_position))
                          \/ ~InRange(idx[i], Len(filtering_temporal_position))
           TooShort(i) == pearsonr_raises(sub_spatial_array(idx[i]))
           Bad(i) == BadIndex(i) \/ TooShort(i)
       IN  IF \E i \in 1..sample_size : Bad(i)
           THEN /\ Raise(IF BadIndex(FirstBad({i \in 1..sample_size : Bad(i)}))
                         THEN "IndexError" ELSE "ValueError")
                /\ UNCHANGED <<coeff, attrs>>
           ELSE /\ coeff' = [i \in 1..sample_size |->
                               ksi_func(sub_spatial_array(idx[i]),
                                        sub_temporal_array(idx[i]))]
                /\ attrs' = attrs \cup {"coeff"}
                /\ pc' = "Scored"
                /\ UNCHANGED error
    /\ UNCHANGED <<params, position, sample_size, spatial_position,
                   temporal_position, filtering_spatial_position,
                   filtering_temporal_position, max_coeff,
                   simplified_spatial_position, simplified_temporal_position,
                   rate, call>>

\* faulty variant: the maxima are written over the scores as well
update_max_coeff_inplace ==
    /\ pc = "Scored"
    /\ trace' = Append(trace, "update_max_coeff")
    /\ LET idx == get_index("gamma")
           BadIndex(i) == ~InRange(idx[i], Len(coeff))
           Empty(i) == Len(idx[i]) = 0
           Bad(i) == BadIndex(i) \/ Empty(i)
       IN  IF \E i \in 1..sample_size : Bad(i)
           THEN /\ Raise(IF BadIndex(FirstBad({i \in 1..sample_size : Bad(i)}))
                         THEN "IndexError" ELSE "ValueError")
                /\ UNCHANGED <<max_coeff, coeff, attrs>>
           ELSE /\ max_coeff' = [i \in 1..sample_size |-> sub_coeff(idx[i])]
                /\ coeff' = max_coeff'
                /\ attrs' = attrs \cup {"max_coeff"}
                /\ pc' = "Selected"
                /\ UNCHANGED error
    /\ UNCHANGED <<params, position, sample_size, spatial_position,
                   temporal_position, filtering_spatial_position,
                   filtering_temporal_position,
                   simplified_spatial_position, simplified_temporal_position,
                   rate, call>>

update_max_coeff ==
    /\ pc = "Scored"
    /\ trace' = Append(trace, "update_max_coeff")
    /\ LET idx == get_index("gamma")
           BadIndex(i) == ~InRange(idx[i], Len(coeff))
           Empty(i) == Len(idx[i]) = 0
           Bad(i) == BadIndex(i) \/ Empty(i)
       IN  IF \E i \in 1..sample_size : Bad(i)
           THEN /\ Raise(IF BadIndex(FirstBad({i \in 1..sample_size : Bad(i)}))
                         THEN "IndexError" ELSE "ValueError")
                /\ UNCHANGED <<max_coeff, attrs>>
           ELSE /\ max_coeff' = [i \in 1..sample_size |-> sub_coeff(idx[i])]
                /\ attrs' = attrs \cup {"max_coeff"}
                /\ pc' = "Selected"
                /\ UNCHANGED error
    /\ UNCHANGED <<params, position, sample_size, spatial_position,
                   temporal_position, filtering_spatial_position,
                   filtering_temporal_position, coeff,
                   simplified_spatial_position, simplified_temporal_position,
                   rate, call>>

simplified_trajectory ==
    /\ pc = "Selected"
    /\ trace' = Append(trace, "simplified_trajectory")
    /\ LET compress_index == where_equal(max_coeff, coeff)
       IN  \* an empty filtered array is one-dimensional: [compress_index,:] raises
           IF \/ Len(filtering_spatial_position) = 0
              \/ ~InRange(compress_index, Len(filtering_spatial_position))
              \/ ~InRange(compress_index, Len(filtering_temporal_position))
           THEN /\ Raise("IndexError")
                /\ UNCHANGED <<simplified_spatial_position,
                               simplified_temporal_position, attrs>>
           ELSE /\ simplified_spatial_position' =
                       Take(filtering_spatial_position, compress_index)
                /\ simplified_temporal_position' =
                       Take(filtering_temporal_position, compress_index)
                /\ attrs' = attrs \cup {"simplified_spatial_position",
                                        "simplified_temporal_position"}
                /\ pc' = "Compressed"
                /\ UNCHANGED error
    /\ UNCHANGED <<params, position, sample_size, spatial_position,
                   temporal_position, filtering_spatial_position,
                   filtering_temporal_position, coeff, max_coeff,
                   rate, call>>

\* 1. - len(simplified_temporal_position) / len(temporal_position), after run()
compression_rate ==
    /\ pc = "Compressed"
    /\ rate = Unset
    /\ Len(temporal_position) > 0
    /\ rate' = Rat(Len(temporal_position) - Len(simplified_temporal_position),
                   Len(temporal_position))
    /\ UNCHANGED <<params, position, sample_size, spatial_position,
                   temporal_position, filtering_spatial_position,
                   filtering_temporal_position, coeff, max_coeff,
                   simplified_spatial_position, simplified_temporal_position,
                   attrs, pc, error, trace, call>>

(***************************************************************************)
(* Inputs                                                                  *)
(***************************************************************************)
Points(maxcoord) == (0..maxcoord) \X (0..maxcoord)

\* samples taken at a fixed rate: the timestamp of sample i is i
Trajectory(pts) == [k \in 1..Len(pts) |-> <<pts[k][1], pts[k][2], k - 1>>]

Trajectories(maxlen, maxcoord) ==
    UNION {{Trajectory(pts) : pts \in [1..n -> Points(maxcoord)]} : n \in 0..maxlen}

Params(maxgamma) == [alpha : 0..MaxAlpha, beta : 0..MaxBeta, gamma : 0..maxgamma]

NoCall == [idx |-> 0, value |-> 0, size |-> 0, result |-> <<>>]

Fresh ==
    /\ spatial_position = <<>>
    /\ temporal_position = <<>>
    /\ filtering_spatial_position = <<>>
    /\ filtering_temporal_position = <<>>
    /\ coeff = <<>>
    /\ max_coeff = <<>>
    /\ simplified_spatial_position = <<>>
    /\ simplified_temporal_position = <<>>
    /\ rate = Unset
    /\ attrs = {}
    /\ pc = "Uninitialized"
    /\ error = "none"
    /\ trace = <<>>
    /\ call = NoCall

\* FastStray(params=..., position=..., sample_size=len(position))
Init ==
    /\ params \in Params(MaxGamma)
    /\ position \in Trajectories(MaxN, MaxCoord)
    /\ sample_size = Len(position)
    /\ Fresh

Next ==
    \/ moving_average
    \/ update_coeff
    \/ update_max_coeff
    \/ simplified_trajectory
    \/ compression_rate

Spec == Init /\ [][Next]_vars

\* the same object on longer trajectories; gamma may also be the length of
\* the trajectory (every suppression window is the whole trajectory)
InitLong ==
    /\ position \in Trajectories(LongN, LongCoord)
    /\ params \in Params(MaxGamma) \cup
                  {[p EXCEPT !.gamma = Len(position)] : p \in Params(0)}
    /\ sample_size = Len(position)
    /\ Fresh

SpecLong == InitLong /\ [][Next]_vars

\* FastStray(params=..., position=...): sample_size keeps the class-level
\* default, the length of the default position
InitDefault ==
    /\ params \in Params(MaxGamma)
    /\ position \in Trajectories(MaxN, MaxCoord)
    /\ sample_size = DefaultSampleSize
    /\ Fresh

NextDefault ==
    \/ moving_average
    \/ update_coeff

SpecDefault == InitDefault /\ [][NextDefault]_vars

\* the static method get_params_idx called on its own
InitWindow ==
    /\ params = [alpha |-> 0, beta |-> 0, gamma |-> 0]
    /\ position = <<>>
    /\ sample_size = 0
    /\ Fresh

CallSizes == (1..MaxSize) \cup {100}

get_params_idx_call ==
    /\ \E size \in CallSizes, value \in 0..MaxValue :
         \E idx \in 0..(size - 1) :
            call' = [idx |-> idx, value |-> value, size |-> size,
                     result |-> get_params_idx(idx, value, size)]
    /\ UNCHANGED pipeline_vars

NextWindow == get_params_idx_call

SpecWindow == InitWindow /\ [][NextWindow]_vars

(***************************************************************************)
(* Properties                                                              *)
(***************************************************************************)
n == Len(position)

Called == call.size > 0

Elems(seq) == {seq[k] : k \in 1..Len(seq)}

Ascending(seq) == \A k \in 1..(Len(seq) - 1) : seq[k] < seq[k + 1]

\* the neighbourhood [max(0, i - w), min(i + w, len)) as a set of indices
WindowSet(i, w, len) ==
    {j \in 0..(len - 1) : j >= Max2(0, i - w) /\ j < Min2(i + w, len)}

\* C1: get_params_idx(i, w, n) is exactly the ascending integers of
\* [max(0, i - w), min(i + w, n)): the upper bound is exclusive, index i + w is
\* never in the window, and window(5, 3, 100) is 2..7.
C1_WindowIsHalfOpenRange ==
    Called =>
        /\ Ascending(call.result)
        /\ Elems(call.result) =
              {j \in 0..(call.idx + call.value) :
                  /\ j >= 0
                  /\ j >= call.idx - call.value
                  /\ j < call.idx + call.value
                  /\ j < call.size}
        /\ (call.idx + call.value) \notin Elems(call.result)
        /\ (call.idx = 5 /\ call.value = 3 /\ call.size = 100
               => call.result = <<2, 3, 4, 5, 6, 7>>)

C1_Witness ==
    /\ call.idx = 5 /\ call.value = 3 /\ call.size = 100
    /\ call.result = <<2, 3, 4, 5, 6, 7>>

\* C2 as stated: for every half-width w >= 0 the window is a non-empty subset
\* of [0, n) that contains its centre index.
C2_WindowContainsCentre ==
    Called =>
        /\ call.result # <<>>
        /\ Elems(call.result) \subseteq 0..(call.size - 1)
        /\ call.idx \in Elems(call.result)

\* C2 amended: for every half-width w >= 1 the window is a non-empty subset
\* of [0, n) that contains its centre index (with w = 0 the window is empty).
C2_WindowContainsCentrePositive ==
    /\ (Called /\ call.value >= 1) =>
          /\ call.result # <<>>
          /\ Elems(call.result) \subseteq 0..(call.size - 1)
          /\ call.idx \in Elems(call.result)
    /\ (Called /\ call.value = 0) => call.result = <<>>

\* a window clipped at the upper end that still holds its centre
C2_Witness ==
    /\ Called
    /\ call.value >= 2
    /\ call.idx = call.size - 1
    /\ call.idx \in Elems(call.result)
    /\ Len(call.result) = call.value

InvalidConfiguration ==
    \/ params.alpha <= 0
    \/ params.beta <= 0
    \/ params.gamma <= 0
    \/ n = 0

\* C3: for a supplied position of n >= 1 samples (and positive half-widths),
\* moving_average produces a filtered spatial sequence of exactly n entries,
\* reads window indices within [0, n) only, and passes the timestamps through
\* unchanged.
C3_SmoothingKeepsLength ==
    (Len(trace) >= 1 /\ ~InvalidConfiguration) =>
        /\ "filtering_spatial_position" \in attrs
        /\ Len(filtering_spatial_position) = n
        /\ \A i \in 1..sample_size : InRange(get_index("alpha")[i], n)
        /\ filtering_temporal_position = Column(position, 3)

\* indices whose smoothed sample is in the compressed trajectory (timestamps
\* are pairwise distinct)
KeptIdx ==
    {i \in 0..(n - 1) :
        \E k \in 1..Len(simplified_temporal_position) :
            simplified_temporal_position[k] = At(temporal_position, i)}

\* score[i] is the maximum of the scores over window(i, gamma, n): it is one
\* of them and no score of the window exceeds it
IsWindowMax(i) ==
    /\ i \in WindowSet(i, params.gamma, n)
    /\ \A j \in WindowSet(i, params.gamma, n) : Geq(At(coeff, i), At(coeff, j))

\* C4: after update_max_coeff and simplified_trajectory, index i is kept iff
\* score[i] equals the maximum of the scores over window(i, gamma, n), ties
\* included, and the compressed trajectory is the subsequence of smoothed
\* samples at the kept indices in their original order.
C4_KeptIffWindowMax ==
    pc = "Compressed" =>
        /\ \A i \in 0..(n - 1) : i \in KeptIdx <=> IsWindowMax(i)
        /\ Ascending(simplified_temporal_position)
        /\ Len(simplified_spatial_position) = Len(simplified_temporal_position)
        /\ \A i \in 0..(n - 1), k \in 1..Len(simplified_temporal_position) :
              simplified_temporal_position[k] = At(temporal_position, i)
                 => simplified_spatial_position[k] = At(filtering_spatial_position, i)

\* indices update_max_coeff and simplified_trajectory keep for half-width g
KeptWith(g) ==
    {i \in 0..(n - 1) :
        /\ get_params_idx(i, g, n) # <<>>
        /\ FloatEq(sub_coeff(get_params_idx(i, g, n)), At(coeff, i))}

\* C5: for a fixed score sequence and suppression half-widths 1 <= g1 <= g2,
\* the indices kept with g2 are among those kept with g1, so the compression
\* rate 1 - kept / n does not decrease as gamma grows.
C5_KeptShrinksWithGamma ==
    ("coeff" \in attrs /\ n >= 1) =>
        \A g1 \in 1..LongN, g2 \in 1..LongN :
            g1 <= g2 =>
                /\ KeptWith(g2) \subseteq KeptWith(g1)
                /\ Cardinality(KeptWith(g2)) <= Cardinality(KeptWith(g1))

GlobalMaxIdx ==
    {i \in 0..(n - 1) : \A j \in 0..(n - 1) : Geq(At(coeff, i), At(coeff, j))}

PairwiseDistinct(seq) ==
    \A i \in 1..Len(seq), j \in 1..Len(seq) : i # j => seq[i] # seq[j]

\* C6: with pairwise distinct scores and gamma == n, exactly one point is
\* kept, the one with the globally maximal score, and compression_rate()
\* returns 1 - 1/n.
C6_WholeWindowKeepsOne ==
    (pc = "Compressed" /\ n >= 1 /\ params.gamma = n /\ PairwiseDistinct(coeff)) =>
        /\ Len(simplified_temporal_position) = 1
        /\ KeptIdx = GlobalMaxIdx
        /\ (rate # Unset => rate = Rat(n - 1, n))

\* C7: with a non-positive alpha, beta or gamma or an empty trajectory, run()
\* raises before any stage executes and leaves no stage output on the object.
C7_InvalidConfigurationRejected ==
    (InvalidConfiguration /\ Len(trace) >= 1) =>
        /\ error # "none"
        /\ attrs = {}

\* the scoring neighbourhood of index i has fewer than 2 samples or a spatial
\* axis that is constant within it
Degenerate(i) ==
    LET w  == get_params_idx(i, params.beta, n)
        pp == Take(filtering_spatial_position, w)
    IN  \/ Len(w) < 2
        \/ IsConstant(Column(pp, 1))
        \/ IsConstant(Column(pp, 2))

\* C8: in a valid configuration, a degenerate scoring neighbourhood does not
\* abort the run, and its index never receives a NaN score.
C8_DegenerateNeighbourhoodSurfaced ==
    (~InvalidConfiguration /\ Len(trace) >= 2) =>
        /\ error = "none"
        /\ "coeff" \in attrs =>
              \A i \in 0..(n - 1) : Degenerate(i) => ~IsNaN(At(coeff, i))

Rank(p) ==
    CASE p = "Uninitialized" -> 0
      [] p = "Smoothed" -> 1
      [] p = "Scored" -> 2
      [] p = "Selected" -> 3
      [] p = "Compressed" -> 4
      [] OTHER -> 5

Written(a) == a \in attrs

\* the stages entered so far are the first stages of run(), in order, each
\* once; a stage's output exists only with the outputs of the stages before
StageOrder ==
    /\ Len(trace) <= Len(Stages)
    /\ \A k \in 1..Len(trace) : trace[k] = Stages[k]
    /\ pc # "Aborted" => Len(trace) = Rank(pc)
    /\ pc = "Aborted" => error # "none" /\ Len(trace) >= 1
    /\ Written("coeff") => Written("filtering_spatial_position")
    /\ Written("max_coeff") => Written("coeff")
    /\ Written("simplified_spatial_position") => Written("max_coeff")
    /\ pc = "Compressed" => /\ trace = Stages
                            /\ Written("simplified_spatial_position")

\* one step: run() moves to the next stage or aborts, and what an earlier
\* stage has written stays as it is
ForwardStep ==
    /\ Rank(pc') = Rank(pc) + 1 \/ pc' = "Aborted" \/ pc' = pc
    /\ pc = "Aborted" => pc' = "Aborted"
    /\ attrs \subseteq attrs'
    /\ position' = position /\ params' = params
    /\ Written("filtering_spatial_position") =>
          /\ filtering_spatial_position' = filtering_spatial_position
          /\ filtering_temporal_position' = filtering_temporal_position
          /\ spatial_position' = spatial_position
          /\ temporal_position' = temporal_position
    /\ Written("coeff") => coeff' = coeff
    /\ Written("max_coeff") => max_coeff' = max_coeff
    /\ Written("simplified_spatial_position") =>
          /\ simplified_spatial_position' = simplified_spatial_position
          /\ simplified_temporal_position' = simplified_temporal_position

\* C9: a run is the linear state machine Uninitialized -> Smoothed -> Scored
\* -> Selected -> Compressed: the stages run once each in that order, and no
\* stage modifies the output of an earlier stage.
C9_LinearPipeline == [](StageOrder) /\ [][ForwardStep]_vars

\* a completed run in which suppression changed something
C9_Witness ==
    /\ pc = "Compressed"
    /\ trace = Stages
    /\ max_coeff # coeff

AllDefined == \A i \in 0..(n - 1) : ~IsNaN(At(coeff, i))

\* C10: after run() with n >= 1, gamma >= 1 and every score defined,
\* maxScore[i] >= score[i] for every i, every index with the globally maximal
\* score is kept, 1 <= kept <= n, and compression_rate() is in [0, 1 - 1/n].
C10_AtLeastOneKept ==
    (pc = "Compressed" /\ n >= 1 /\ params.gamma >= 1 /\ AllDefined) =>
        /\ \A i \in 0..(n - 1) : Geq(At(max_coeff, i), At(coeff, i))
        /\ GlobalMaxIdx # {}
        /\ GlobalMaxIdx \subseteq KeptIdx
        /\ Len(simplified_temporal_position) >= 1
        /\ Len(simplified_temporal_position) <= n
        /\ rate # Unset =>
              /\ rate.k = "num"
              /\ rate.n >= 0
              /\ rate.n * n <= (n - 1) * rate.d
              /\ rate = Rat(n - Len(simplified_temporal_position), n)

\* a completed run with defined scores that dropped a point
C10_Witness ==
    /\ pc = "Compressed"
    /\ AllDefined
    /\ params.gamma >= 1
    /\ rate # Unset
    /\ rate.n > 0
    /\ Len(simplified_temporal_position) < n

====
